---- MODULE Spec2Model ----
(***************************************************************************)
(* The scripted chat responder of src/lib/agent.ts and src/lib/tools.ts.   *)
(* Texts are TLA+ strings handled character by character (Len, SubSeq and  *)
(* \o work on strings), so that lowercasing, tokenising and pattern        *)
(* matching are computed the way the code computes them.                   *)
(***************************************************************************)
EXTENDS Integers, Sequences, FiniteSets, TLC

VARIABLES
    messages,   \* the history handed to SyntheticAgent.process
    pc,         \* "compose" while the request is assembled, "done" after process
    outcome,    \* what process produced: nothing yet, an error, or an AgentTurn
    text,       \* the text a single function of the pipeline is applied to
    ret         \* the last function applied to text, its arguments and its result

vars == <<messages, pc, outcome, text, ret>>

----------------------------------------------------------------------------
(* Bounds of the model. *)

\* the number of messages of a history
MaxHistory == 2

\* the number of chunks of a text
MaxChunks == 2

----------------------------------------------------------------------------
(* Characters and strings. *)

LowerAlpha == "abcdefghijklmnopqrstuvwxyz"
UpperAlpha == "ABCDEFGHIJKLMNOPQRSTUVWXYZ"
Digits == "0123456789"

Char(s, i) == SubSeq(s, i, i)

CharsOf(s) == {Char(s, i) : i \in 1..Len(s)}

LowerChars == CharsOf(LowerAlpha)
UpperChars == CharsOf(UpperAlpha)
DigitChars == CharsOf(Digits)

\* \w of a JavaScript regular expression
WordChars == LowerChars \cup UpperChars \cup DigitChars \cup {"_"}

\* \s of a JavaScript regular expression (the ASCII part)
SpaceChars == {" ", "\n", "\t", "\r"}

IndexIn(alphabet, c) == CHOOSE i \in 1..Len(alphabet) : Char(alphabet, i) = c

toLowerChar(c) ==
    IF c \in UpperChars THEN Char(LowerAlpha, IndexIn(UpperAlpha, c)) ELSE c

toUpperChar(c) ==
    IF c \in LowerChars THEN Char(UpperAlpha, IndexIn(LowerAlpha, c)) ELSE c

\* The character maps below work on the range lo..hi of a string by halving
\* it, which keeps the depth of the recursion logarithmic in the length.

RECURSIVE LowerRange(_, _, _)
LowerRange(s, lo, hi) ==
    IF lo > hi THEN ""
    ELSE IF lo = hi THEN toLowerChar(Char(s, lo))
    ELSE LET mid == (lo + hi) \div 2
         IN  LowerRange(s, lo, mid) \o LowerRange(s, mid + 1, hi)

\* String.prototype.toLowerCase
toLowerCase(s) == LowerRange(s, 1, Len(s))

RECURSIVE UpperRange(_, _, _)
UpperRange(s, lo, hi) ==
    IF lo > hi THEN ""
    ELSE IF lo = hi THEN toUpperChar(Char(s, lo))
    ELSE LET mid == (lo + hi) \div 2
         IN  UpperRange(s, lo, mid) \o UpperRange(s, mid + 1, hi)

\* String.prototype.toUpperCase
toUpperCase(s) == UpperRange(s, 1, Len(s))

\* String.prototype.includes
includes(s, sub) ==
    \E i \in 1..(Len(s) - Len(sub) + 1) : SubSeq(s, i, i + Len(sub) - 1) = sub

\* RegExp.prototype.test for a pattern that is an alternation of literals,
\* given as the set of its alternatives
test(pattern, s) == \E lit \in pattern : includes(s, lit)

\* String.prototype.trim: from the first to the last character that is no
\* whitespace
trim(s) ==
    LET solid == {n \in 1..Len(s) : Char(s, n) \notin SpaceChars}
    IN  IF solid = {} THEN ""
        ELSE SubSeq(s, CHOOSE n \in solid : \A m \in solid : n <= m,
                       CHOOSE n \in solid : \A m \in solid : n >= m)

RECURSIVE join(_, _)
\* Array.prototype.join
join(seq, sep) ==
    IF Len(seq) = 0 THEN ""
    ELSE IF Len(seq) = 1 THEN seq[1]
    ELSE seq[1] \o sep \o join(Tail(seq), sep)

\* Array.prototype.slice(0, n)
slice(seq, n) == SubSeq(seq, 1, IF n < Len(seq) THEN n ELSE Len(seq))

RECURSIVE Dedupe(_, _)
\* Array.from(new Set(seq)): a Set keeps the first insertion of each value
Dedupe(seq, seen) ==
    IF Len(seq) = 0 THEN <<>>
    ELSE IF seq[1] \in seen THEN Dedupe(Tail(seq), seen)
    ELSE <<seq[1]>> \o Dedupe(Tail(seq), seen \cup {seq[1]})

\* nanoid(): an id the environment draws; seed is the draw, k the call
nanoid(seed, k) == "id" \o ToString(seed) \o "_" \o ToString(k)

----------------------------------------------------------------------------
(* agent.ts: tables. *)

STOP_WORDS ==
    {"the", "and", "that", "with", "from", "this", "have", "what", "your",
     "about", "into", "their", "would", "there", "which", "could", "while",
     "where", "when"}

Intents == {"research", "strategy", "build", "analysis", "assist"}

\* a plausible slip: the strategy rule listed before the research rule
INTENT_MATCHERS_StrategyFirst ==
    << [intent |-> "build",
        patterns |-> << {"build", "create", "code", "prototype", "implement", "ship"},
                        {"wireframe", "ui", "frontend", "architecture"} >>],
       [intent |-> "strategy",
        patterns |-> << {"plan", "strategy", "roadmap", "launch", "roll"},
                        {"scale", "operationalize", "align", "stakeholder"} >>],
       [intent |-> "research",
        patterns |-> << {"research", "investigate", "survey", "compare", "market"},
                        {"trend", "landscape", "analysis"} >>],
       [intent |-> "analysis",
        patterns |-> << {"debug", "explain", "reason", "evaluate", "assess"},
                        {"breakdown", "decompose", "why", "risk"} >>] >>

\* a plausible slip: "roadmap" left out of the strategy rule
INTENT_MATCHERS_NoRoadmap ==
    << [intent |-> "build",
        patterns |-> << {"build", "create", "code", "prototype", "implement", "ship"},
                        {"wireframe", "ui", "frontend", "architecture"} >>],
       [intent |-> "research",
        patterns |-> << {"research", "investigate", "survey", "compare", "market"},
                        {"trend", "landscape", "analysis"} >>],
       [intent |-> "strategy",
        patterns |-> << {"plan", "strategy", "launch", "roll"},
                        {"scale", "operationalize", "align", "stakeholder"} >>],
       [intent |-> "analysis",
        patterns |-> << {"debug", "explain", "reason", "evaluate", "assess"},
                        {"breakdown", "decompose", "why", "risk"} >>] >>

INTENT_MATCHERS ==
    << [intent |-> "build",
        patterns |-> << {"build", "create", "code", "prototype", "implement", "ship"},
                        {"wireframe", "ui", "frontend", "architecture"} >>],
       [intent |-> "research",
        patterns |-> << {"research", "investigate", "survey", "compare", "market"},
                        {"trend", "landscape", "analysis"} >>],
       [intent |-> "strategy",
        patterns |-> << {"plan", "strategy", "roadmap", "launch", "roll"},
                        {"scale", "operationalize", "align", "stakeholder"} >>],
       [intent |-> "analysis",
        patterns |-> << {"debug", "explain", "reason", "evaluate", "assess"},
                        {"breakdown", "decompose", "why", "risk"} >>] >>

----------------------------------------------------------------------------
(* agent.ts: detectIntent. *)

\* matcher.patterns.some((pattern) => pattern.test(normalized))
MatcherHits(matcher, normalized) ==
    \E p \in 1..Len(matcher.patterns) : test(matcher.patterns[p], normalized)

\* a plausible slip: assist as the default, whether or not "how" occurs
Fallback_AssistDefault(normalized) ==
    IF includes(normalized, "launch") \/ includes(normalized, "roadmap")
    THEN "strategy"
    ELSE "assist"

\* the substring checks after the loop
Fallback(normalized) ==
    IF includes(normalized, "launch") \/ includes(normalized, "roadmap")
    THEN "strategy"
    ELSE IF includes(normalized, "how") THEN "assist" ELSE "analysis"

RECURSIVE MatchFrom(_, _, _)
\* the for loop over the matchers from index k on, then the fallbacks
MatchFrom(matchers, k, normalized) ==
    IF k > Len(matchers)
    THEN Fallback(normalized)
    ELSE IF MatcherHits(matchers[k], normalized)
         THEN matchers[k].intent
         ELSE MatchFrom(matchers, k + 1, normalized)

detectIntent(message) == MatchFrom(INTENT_MATCHERS, 1, toLowerCase(message))

----------------------------------------------------------------------------
(* agent.ts: extractKeywords. *)

\* the number of keywords kept: slice(0, 12)
KeywordCap == 12

RECURSIVE StripRange(_, _, _)
\* replace(/[^\w\s-]/g, " ")
StripRange(s, lo, hi) ==
    IF lo > hi THEN ""
    ELSE IF lo = hi
         THEN (IF Char(s, lo) \in WordChars \cup SpaceChars \cup {"-"}
               THEN Char(s, lo) ELSE " ")
    ELSE LET mid == (lo + hi) \div 2
         IN  StripRange(s, lo, mid) \o StripRange(s, mid + 1, hi)

strip(s) == StripRange(s, 1, Len(s))

\* the least element of a non-empty set of integers
Min(set) == CHOOSE n \in set : \A m \in set : n <= m

\* the first index from i on that holds no character of set (Len(s) + 1 if none)
SkipWhile(s, i, set) ==
    Min({n \in i..Len(s) : Char(s, n) \notin set} \cup {Len(s) + 1})

\* the first index from i on that holds a character of set (Len(s) + 1 if none)
SkipUntil(s, i, set) ==
    Min({n \in i..Len(s) : Char(s, n) \in set} \cup {Len(s) + 1})

SkipSpaces(s, i) == SkipWhile(s, i, SpaceChars)

RECURSIVE SplitFrom(_, _)
\* split(/\s+/) from index i on: the pieces between the whitespace runs, empty
\* pieces included
SplitFrom(s, i) ==
    LET stop == SkipUntil(s, i, SpaceChars)
    IN  IF stop > Len(s) THEN << SubSeq(s, i, Len(s)) >>
        ELSE << SubSeq(s, i, stop - 1) >> \o SplitFrom(s, SkipSpaces(s, stop))

split(s) == SplitFrom(s, 1)

AllIn(s, set) == \A i \in 1..Len(s) : Char(s, i) \in set

IsDigits(s) == Len(s) > 0 /\ AllIn(s, DigitChars)

IsSignedDigits(s) ==
    \/ IsDigits(s)
    \/ Len(s) > 1 /\ Char(s, 1) = "-" /\ IsDigits(SubSeq(s, 2, Len(s)))

\* digits, with an optional exponent
IsDecimal(u) ==
    \/ IsDigits(u)
    \/ \E k \in 2..(Len(u) - 1) :
          /\ Char(u, k) = "e"
          /\ IsDigits(SubSeq(u, 1, k - 1))
          /\ IsSignedDigits(SubSeq(u, k + 1, Len(u)))

IsRadix(t, mark, digits) ==
    /\ Len(t) > 2
    /\ SubSeq(t, 1, 2) = mark
    /\ AllIn(SubSeq(t, 3, Len(t)), digits)

\* !isNaN(Number(token)) for a token of lowercase word characters and hyphens
IsNumeric(t) ==
    \/ IsDecimal(t)
    \/ Len(t) > 1 /\ Char(t, 1) = "-" /\ IsDecimal(SubSeq(t, 2, Len(t)))
    \/ IsRadix(t, "0x", DigitChars \cup CharsOf("abcdef"))
    \/ IsRadix(t, "0b", {"0", "1"})
    \/ IsRadix(t, "0o", CharsOf("01234567"))

\* a plausible slip: the stop-word test left out of the filter
Qualifies_NoStopWords(token) == Len(token) > 3 /\ ~IsNumeric(token)

\* the filter of extractKeywords
Qualifies(token) ==
    Len(token) > 3 /\ token \notin STOP_WORDS /\ ~IsNumeric(token)

RECURSIVE filter(_)
filter(tokens) ==
    IF Len(tokens) = 0 THEN <<>>
    ELSE (IF Qualifies(tokens[1]) THEN <<tokens[1]>> ELSE <<>>)
         \o filter(Tail(tokens))

Tokens(message) == split(strip(toLowerCase(message)))

extractKeywords(message) ==
    Dedupe(slice(filter(Tokens(message)), KeywordCap), {})

----------------------------------------------------------------------------
(* agent.ts: detectFacts and capitalizeWords. *)

RECURSIVE CapitalizeRange(_, _, _)
\* replace(/\b\w/g, (char) => char.toUpperCase())
CapitalizeRange(s, lo, hi) ==
    IF lo > hi THEN ""
    ELSE IF lo = hi
         THEN (IF Char(s, lo) \in WordChars
                  /\ (lo = 1 \/ Char(s, lo - 1) \notin WordChars)
               THEN toUpperChar(Char(s, lo)) ELSE Char(s, lo))
    ELSE LET mid == (lo + hi) \div 2
         IN  CapitalizeRange(s, lo, mid) \o CapitalizeRange(s, mid + 1, hi)

capitalizeWords(input) == CapitalizeRange(input, 1, Len(input))

\* [a-z\s]
NameChars == LowerChars \cup SpaceChars

\* the last index of the run of [a-z\s] characters that starts at j (j - 1 if none)
RunEnd(s, j) == SkipWhile(s, j, NameChars) - 1

\* lead\s+([a-z\s]+) matches at index i: the literal, then a run of [a-z\s]
\* of two characters or more that starts with whitespace
MatchesAt(s, lead, i) ==
    /\ i + Len(lead) <= Len(s)
    /\ SubSeq(s, i, i + Len(lead) - 1) = lead
    /\ Char(s, i + Len(lead)) \in SpaceChars
    /\ RunEnd(s, i + Len(lead)) >= i + Len(lead) + 1

\* the capture group of the match at i: \s+ is greedy and gives back one
\* character when it has swallowed the whole run
GroupAt(s, lead, i) ==
    LET j == i + Len(lead)
        e == RunEnd(s, j)
        w == SkipSpaces(s, j)
    IN  IF w <= e THEN SubSeq(s, w, e) ELSE SubSeq(s, e, e)

\* String.prototype.match(/(?:lead1|lead2|...)\s+([a-z\s]+)/): the capture group
\* of the leftmost match, as a one-element sequence, or <<>> when nothing matches
match(s, leads) ==
    LET hits == {i \in 1..Len(s) : \E l \in leads : MatchesAt(s, l, i)}
    IN  IF hits = {} THEN <<>>
        ELSE LET i == CHOOSE h \in hits : \A g \in hits : h <= g
                 l == CHOOSE l \in leads : MatchesAt(s, l, i)
             IN  <<GroupAt(s, l, i)>>

\* confidences are kept in hundredths: 0.7 is 70
detectFacts(content, seed, k) ==
    LET normalized == toLowerCase(content)
        nameMatch == match(normalized, {"my name is"})
        companyMatch == match(normalized, {"we run", "we have", "we built"})
    IN  (IF nameMatch # <<>>
         THEN << [id |-> nanoid(seed, k + 1), label |-> "user-profile",
                  confidence |-> 70,
                  summary |-> "User is " \o capitalizeWords(trim(nameMatch[1]))] >>
         ELSE <<>>)
        \o
        (IF companyMatch # <<>>
         THEN << [id |-> nanoid(seed, k + 2), label |-> "org-focus",
                  confidence |-> 65,
                  summary |-> "Company context: "
                              \o capitalizeWords(trim(companyMatch[1]))] >>
         ELSE <<>>)
        \o
        (IF includes(normalized, "deadline") \/ includes(normalized, "launch")
         THEN << [id |-> nanoid(seed, k + 3), label |-> "cadence",
                  confidence |-> 50,
                  summary |-> "User is sensitive to deadlines / launch timing."] >>
         ELSE <<>>)

----------------------------------------------------------------------------
(* agent.ts: buildTaskGraph. *)

Task(seed, k, title, detail) ==
    [id |-> nanoid(seed, k), title |-> title, detail |-> detail,
     status |-> "pending"]

BaseTasks(seed) ==
    << Task(seed, 11, "Clarify outcome",
            "Capture the north-star metric or success definition before acting."),
       Task(seed, 12, "Assess constraints",
            "Identify timeline, resources, and risk tolerance.") >>

\* the if / else if chain on the intent
IntentTasks(intent, seed) ==
    IF intent = "build"
    THEN << Task(seed, 13, "Draft implementation plan",
                 "Break the build into composable skills, tools, and verification hooks.") >>
    ELSE IF intent = "strategy"
    THEN << Task(seed, 13, "Sequence milestones",
                 "Map quick wins, core build, and reinforcement loops.") >>
    ELSE IF intent = "research"
    THEN << Task(seed, 13, "Aggregate competitive signals",
                 "Create a succinct brief with differentiators and threats.") >>
    ELSE IF intent = "analysis"
    THEN << Task(seed, 13, "Formulate diagnostics",
                 "List hypotheses and validation experiments.") >>
    ELSE <<>>

TimelineTasks(lower, seed) ==
    IF includes(lower, "timeline") \/ includes(lower, "deadline")
    THEN << Task(seed, 14, "Timeline handshake",
                 "Outline delivery cadence and review checkpoints.") >>
    ELSE <<>>

\* a plausible slip: the timeline task pushed before the intent's task
buildTaskGraph_TimelineFirst(intent, content, seed) ==
    BaseTasks(seed) \o TimelineTasks(toLowerCase(content), seed)
    \o IntentTasks(intent, seed)

buildTaskGraph(intent, content, seed) ==
    BaseTasks(seed) \o IntentTasks(intent, seed)
    \o TimelineTasks(toLowerCase(content), seed)

----------------------------------------------------------------------------
(* tools.ts: tables. *)

curatedTrends ==
    [ai |-> << "Lightweight on-device reasoning chips are enabling embedded copilots.",
               "Mixture-of-agents workflows are outperforming single LLM setups for operations.",
               "Autonomous evaluation loops are the new differentiator for AI products." >>,
     robotics |-> << "Low-latency vision transformers are unlocking sub-mm precision grasping.",
                     "Composable motion stacks let teams iterate faster by swapping planners.",
                     "Digital twin simulations cut robot testing time in half for top labs." >>,
     product |-> << "Adaptive UX that reacts to user intent increases activation conversion.",
                    "Ops teams adopt AI-first war rooms to triage incidents in minutes.",
                    "Multi-modal onboarding content lifts enterprise adoption by 20%+." >>,
     default |-> << "Teams that pair autonomous agents with human oversight stay compliant.",
                    "Continuous knowledge distillation keeps AI copilots aligned with brand voice.",
                    "Carving agentic workflows into atomic skills improves monitoring and testing." >>]

patternLibrary ==
    [roadmap |-> << "Define a north-star metric to anchor the outcome.",
                    "Layer quick-win experiments before platform-level investments.",
                    "Document guardrails and review cadence for autonomous loops." >>,
     engineering |-> << "Instrument every agent action with typed telemetry events.",
                        "Use deterministic evaluation suites before production rollouts.",
                        "Mirror prod-like sandboxes to test tool side-effects safely." >>,
     growth |-> << "Craft tiny in-product moments for the agent to prove value fast.",
                   "Bundle recap emails so stakeholders trust autonomous workflows.",
                   "Offer fallbacks to human experts to protect high-value accounts." >>]

researchSnippets ==
    [market |-> "VC focus pivots to vertically-integrated AI stacks; valuations favor proprietary data loops over generic wrappers.",
     security |-> "Runtime policy enforcement and action simulators reduce agent misfires by 35% in red-team benchmarks.",
     ux |-> "Adaptive feedback layers (ghost text, inline previews) increase completion for complex agent prompts."]

----------------------------------------------------------------------------
(* tools.ts: the tools. *)

\* keywords.some((word) => pattern.test(word))
some(keywords, pattern) == \E n \in 1..Len(keywords) : test(pattern, keywords[n])

\* seq.map((item, idx) => `${idx + 1}. ${item}`)
Numbered(seq) == [n \in 1..Len(seq) |-> ToString(n) \o ". " \o seq[n]]

\* keywords.map((k) => `- ${k}`)
Bulleted(seq) == [n \in 1..Len(seq) |-> "- " \o seq[n]]

\* the message length above which the workflow appetite is multi-step
LongMessage == 180

\* a plausible slip: one keyword more listed by Signal Scan
ScanCap_Five == 4 + 1

\* the number of keywords Signal Scan lists: slice(0, 4)
ScanCap == 4

formatSignalScan(keywords, message) ==
    LET normalizedKeywords ==
            IF Len(keywords) > 0
            THEN Bulleted(slice(keywords, ScanCap))
            ELSE << "- intent discovery pending (message was too short)" >>
        coreNeed ==
            IF Len(message) > LongMessage THEN "multi-step support" ELSE "fast response"
    IN  join(<< "Key tokens:" >> \o normalizedKeywords
             \o << "", "Workflow appetite: " \o coreNeed >>, "\n")

\* a plausible slip: the robotics rule tried before the ux rule
resolveFocus_RoboticsBeforeUx(keywords) ==
    IF some(keywords, {"security", "guardrail", "safety"}) THEN "security"
    ELSE IF some(keywords, {"activation", "north star", "retention"}) THEN "product"
    ELSE IF some(keywords, {"market", "competitor", "landscape"}) THEN "market"
    ELSE IF some(keywords, {"robot", "mechanical"}) THEN "robotics"
    ELSE IF some(keywords, {"ux", "interface", "onboarding"}) THEN "ux"
    ELSE "ai"

resolveFocus(keywords) ==
    IF some(keywords, {"security", "guardrail", "safety"}) THEN "security"
    ELSE IF some(keywords, {"activation", "north star", "retention"}) THEN "product"
    ELSE IF some(keywords, {"market", "competitor", "landscape"}) THEN "market"
    ELSE IF some(keywords, {"ux", "interface", "onboarding"}) THEN "ux"
    ELSE IF some(keywords, {"robot", "mechanical"}) THEN "robotics"
    ELSE "ai"

resolvePatternDomain(keywords) ==
    IF some(keywords, {"growth", "marketing", "conversion"}) THEN "growth"
    ELSE IF some(keywords, {"launch", "roadmap", "stakeholder"}) THEN "roadmap"
    ELSE "engineering"

runResearchDeck(keywords, seed) ==
    LET focus == resolveFocus(keywords)
        insight ==
            IF focus \in DOMAIN researchSnippets THEN researchSnippets[focus]
            ELSE "Teams that invest in evaluation harnesses keep agent drift under control."
        trendPool ==
            IF focus \in DOMAIN curatedTrends THEN curatedTrends[focus]
            ELSE IF "default" \in DOMAIN curatedTrends THEN curatedTrends["default"]
            ELSE curatedTrends["ai"]
        topTrends == Numbered(slice(trendPool, 2))
    IN  [id |-> nanoid(seed, 22), name |-> "Trend Pulse",
         description |-> "Aggregates fast-moving market signals.",
         result |-> join(<< "Signals:" >> \o topTrends
                         \o << "", "Insight: " \o insight >>, "\n"),
         type |-> "analysis"]

runPatternLibrary(keywords, seed) ==
    LET domain == resolvePatternDomain(keywords)
        snippets ==
            IF domain \in DOMAIN patternLibrary THEN patternLibrary[domain]
            ELSE patternLibrary["roadmap"]
    IN  [id |-> nanoid(seed, 22), name |-> "Strategy Weave",
         description |-> "Maps heuristics to recommended operating cadence.",
         result |-> join(Numbered(snippets), "\n"),
         type |-> "action"]

\* keywords.find((k) => /ui|interface|frontend/.test(k)), as a sequence of
\* at most one keyword
\* a plausible slip: the last matching keyword instead of the first
FindUi_Last(keywords) ==
    LET hits == {n \in 1..Len(keywords) :
                    test({"ui", "interface", "frontend"}, keywords[n])}
    IN  IF hits = {} THEN <<>>
        ELSE << keywords[CHOOSE n \in hits : \A m \in hits : n >= m] >>

\* keywords.find((k) => /ui|interface|frontend/.test(k))
FindUi(keywords) ==
    LET hits == {n \in 1..Len(keywords) :
                    test({"ui", "interface", "frontend"}, keywords[n])}
    IN  IF hits = {} THEN <<>>
        ELSE << keywords[CHOOSE n \in hits : \A m \in hits : n <= m] >>

runBuildAccelerator(keywords, seed) ==
    LET focus == FindUi(keywords)
        summary ==
            IF focus # <<>>
            THEN "Design UI scaffolds highlighting " \o focus[1] \o " data hotspots."
            ELSE "Focus on deterministic evaluation harness and typed tool schema."
    IN  [id |-> nanoid(seed, 22), name |-> "Build Accelerator",
         description |-> "Turns build-focused intents into tactical traction.",
         result |-> join(<< "Checklist:",
                            "1. Draft agent skill graph (intent -> tools -> outcomes).",
                            "2. Model telemetry events before wiring new actions.",
                            "3. " \o summary >>, "\n"),
         type |-> "action"]

SignalScan(keywords, message, seed) ==
    [id |-> nanoid(seed, 21), name |-> "Signal Scan",
     description |-> "Highlights dominant concepts and operational levers.",
     result |-> formatSignalScan(keywords, message),
     type |-> "analysis"]

\* a plausible slip: Strategy Weave run for strategy only, not for assist
runToolset_StrategyOnly(context, seed) ==
    << SignalScan(context.keywords, context.message, seed) >>
    \o (IF context.intent = "research" \/ context.intent = "analysis"
        THEN << runResearchDeck(context.keywords, seed) >> ELSE <<>>)
    \o (IF context.intent = "strategy"
        THEN << runPatternLibrary(context.keywords, seed) >> ELSE <<>>)
    \o (IF context.intent = "build"
        THEN << runBuildAccelerator(context.keywords, seed) >> ELSE <<>>)

\* context is [intent, message, keywords]
runToolset(context, seed) ==
    << SignalScan(context.keywords, context.message, seed) >>
    \o (IF context.intent = "research" \/ context.intent = "analysis"
        THEN << runResearchDeck(context.keywords, seed) >> ELSE <<>>)
    \o (IF context.intent = "strategy" \/ context.intent = "assist"
        THEN << runPatternLibrary(context.keywords, seed) >> ELSE <<>>)
    \o (IF context.intent = "build"
        THEN << runBuildAccelerator(context.keywords, seed) >> ELSE <<>>)

----------------------------------------------------------------------------
(* agent.ts: extractMemories, composeReasoning, composeAssistantMessage. *)

RECURSIVE UserFacts(_, _, _)
\* messages.filter((msg) => msg.role === "user").flatMap(detectFacts), from
\* message n on
UserFacts(msgs, n, seed) ==
    IF n > Len(msgs) THEN <<>>
    ELSE (IF msgs[n].role = "user"
          THEN detectFacts(msgs[n].content, seed, 100 * n) ELSE <<>>)
         \o UserFacts(msgs, n + 1, seed)

\* a plausible slip: every fact kept, repeated summaries included
UniqueFacts_KeepAll(facts, seen) == facts

RECURSIVE UniqueFacts(_, _)
\* the Map keyed by summary: the first fact of each summary, in insertion order
UniqueFacts(facts, seen) ==
    IF Len(facts) = 0 THEN <<>>
    ELSE IF facts[1].summary \in seen THEN UniqueFacts(Tail(facts), seen)
    ELSE <<facts[1]>> \o UniqueFacts(Tail(facts), seen \cup {facts[1].summary})

\* a one-element sequence holding the list of facts, or <<>> for undefined
extractMemories(msgs, seed) ==
    LET uniqueFacts == UniqueFacts(UserFacts(msgs, 1, seed), {})
    IN  IF Len(uniqueFacts) > 0 THEN <<uniqueFacts>> ELSE <<>>

Names(tools) == [n \in 1..Len(tools) |-> tools[n].name]

composeReasoning(intent, keywords, tasks, tools) ==
    LET joined == join(slice(keywords, 3), ", ")
        primaryKeywords == IF joined # "" THEN joined ELSE "insufficient data"
        toolLabels == join(Names(tools), ", ")
    IN  << "Intent classification: " \o toUpperCase(intent)
              \o " (signals: " \o primaryKeywords \o ").",
           "Toolkit assembled: "
              \o (IF toolLabels # "" THEN toolLabels ELSE "baseline response only")
              \o ".",
           "Execution ready across " \o ToString(Len(tasks)) \o " structured tasks." >>

RECURSIVE SplitLinesFrom(_, _)
\* split("\n") from index i on
SplitLinesFrom(s, i) ==
    LET stop == SkipUntil(s, i, {"\n"})
    IN  IF stop > Len(s) THEN << SubSeq(s, i, Len(s)) >>
        ELSE << SubSeq(s, i, stop - 1) >> \o SplitLinesFrom(s, stop + 1)

RECURSIVE repeat(_, _)
\* String.prototype.repeat
repeat(s, n) == IF n = 0 THEN "" ELSE s \o repeat(s, n - 1)

indentBlock(block, spaces) ==
    LET pad == repeat(" ", spaces)
        lines == SplitLinesFrom(block, 1)
    IN  join([n \in 1..Len(lines) |->
                 IF Len(trim(lines[n])) = 0 THEN "" ELSE pad \o lines[n]], "\n")

RECURSIVE filterBoolean(_)
\* filter(Boolean) on strings: the empty strings are dropped
filterBoolean(lines) ==
    IF Len(lines) = 0 THEN <<>>
    ELSE (IF lines[1] # "" THEN <<lines[1]>> ELSE <<>>) \o filterBoolean(Tail(lines))

\* a plausible slip: the task's generated id rendered in its line
TaskLine_WithId(n, task) ==
    ToString(n) \o ". [" \o task.id \o "] " \o task.title \o " -- " \o task.detail

\* `${idx + 1}. ${task.title} -- ${task.detail}`
TaskLine(n, task) == ToString(n) \o ". " \o task.title \o " -- " \o task.detail

\* input is [intent, tasks, tools, keywords] and, when memory is given, memory.
\* The dash between a task's title and its detail is an em dash in the source.
composeAssistantMessage(input) ==
    LET intent == input.intent
        tasks == input.tasks
        tools == input.tools
        keywords == input.keywords
        humanIntent ==
            IF intent = "assist" THEN "Fast assist"
            ELSE toUpperChar(Char(intent, 1)) \o SubSeq(intent, 2, Len(intent))
        taskList ==
            join([n \in 1..Len(tasks) |-> TaskLine(n, tasks[n])], "\n")
        toolNarrative ==
            join([n \in 1..Len(tools) |->
                     "**" \o tools[n].name \o "** (" \o tools[n].type \o "):\n"
                     \o indentBlock(tools[n].result, 2)],
                 "\n\n")
        memoryLines ==
            IF "memory" \in DOMAIN input /\ Len(input.memory) > 0
            THEN join([n \in 1..Len(input.memory) |->
                          "- " \o input.memory[n].summary \o " ("
                          \o ToString(input.memory[n].confidence) \o "% confidence)"],
                      "\n")
            ELSE ""
        focus == IF Len(keywords) > 0 THEN join(slice(keywords, 5), ", ") ELSE "TBD"
    IN  join(filterBoolean(
            << "### Mode: " \o humanIntent,
               "",
               "**Focus tokens:** " \o focus,
               "",
               "### Operating Plan",
               taskList,
               "",
               "### Tooling Output",
               IF toolNarrative # "" THEN toolNarrative
               ELSE "_No specialised tools invoked; relying on reasoning._",
               IF memoryLines # "" THEN "\n### Memory Hooks\n" \o memoryLines ELSE "",
               "",
               "### Next Steps",
               "- Confirm the most urgent lane and I will extend the playbook.",
               "- Share constraints (team size, tech stack) to tighten the recommendation.",
               "- Ask for artefacts (pitch, deck, code scaffold) and I'll draft them." >>),
            "\n")

----------------------------------------------------------------------------
(* agent.ts: SyntheticAgent.process. *)

Roles == {"system", "user", "assistant"}

\* [...messages].reverse()
reverse(seq) == [n \in 1..Len(seq) |-> seq[Len(seq) + 1 - n]]

\* seq.find((msg) => msg.role === role): a one-element sequence, or <<>>
find(seq, role) ==
    LET hits == {n \in 1..Len(seq) : seq[n].role = role}
    IN  IF hits = {} THEN <<>>
        ELSE << seq[CHOOSE n \in hits : \A m \in hits : n <= m] >>

\* a plausible slip: messages.reverse() without the copy, which reverses the
\* caller's array in place
InputAfter_ReversedInPlace(msgs) == reverse(msgs)

\* the caller's array after the call: reverse() works on the copy [...messages]
\* and filter() builds a new array, so the array is as it was
InputAfter(msgs) == msgs

\* a plausible slip: the latest message taken whatever its role
FindUserMessage_Latest(msgs) ==
    IF Len(msgs) = 0 THEN <<>> ELSE << msgs[Len(msgs)] >>

\* a plausible slip: the history searched from its start
FindUserMessage_First(msgs) == find(msgs, "user")

FindUserMessage(msgs) == find(reverse(msgs), "user")

NoOutcome == [status |-> "none"]

\* what process(messages) produces: the thrown error, or the AgentTurn
process(msgs, seed, now) ==
    LET found == FindUserMessage(msgs)
    IN  IF found = <<>>
        THEN [status |-> "error", error |-> "User message required"]
        ELSE
        LET userMessage == found[1]
            intent == detectIntent(userMessage.content)
            keywords == extractKeywords(userMessage.content)
            tasks == buildTaskGraph(intent, userMessage.content, seed)
            tools == runToolset([intent |-> intent, keywords |-> keywords,
                                 message |-> userMessage.content], seed)
            memory == extractMemories(msgs, seed)
            reasoning == composeReasoning(intent, keywords, tasks, tools)
            core == [intent |-> intent, tasks |-> tasks, tools |-> tools,
                     keywords |-> keywords]
            finalResponse ==
                composeAssistantMessage(
                    IF memory = <<>> THEN core
                    ELSE [intent |-> intent, tasks |-> tasks, tools |-> tools,
                          keywords |-> keywords, memory |-> memory[1]])
            turn == [message |-> [id |-> nanoid(seed, 1), role |-> "assistant",
                                  content |-> finalResponse, createdAt |-> now],
                     intent |-> intent, reasoning |-> reasoning,
                     tools |-> tools, tasks |-> tasks]
        IN  [status |-> "turn",
             turn |-> IF memory = <<>> THEN turn
                      ELSE [message |-> turn.message, intent |-> intent,
                            reasoning |-> reasoning, tools |-> tools,
                            tasks |-> tasks, memory |-> memory[1]]]

----------------------------------------------------------------------------
(* The requests: a client assembles a history and the agent processes it. *)

\* the contents a message of the history may have
Contents ==
    { "My name is Ada",
      "We built rovers before the launch deadline",
      "Compare launch plans",
      "plan the roadmap",
      "how do I" }

\* what the environment hands a call: the seed of the ids it generates and
\* the instant its clock shows
Draws == { [seed |-> 0, now |-> "t0"], [seed |-> 1, now |-> "t1"] }

Seeds == {d.seed : d \in Draws}

NoCall == [fn |-> "none"]

Init ==
    /\ messages = <<>>
    /\ pc = "compose"
    /\ outcome = NoOutcome
    /\ text = ""
    /\ ret = NoCall

\* the client adds a message to the history it will send
Post(role, content) ==
    /\ pc = "compose"
    /\ Len(messages) < MaxHistory
    /\ messages' = Append(messages, [role |-> role, content |-> content])
    /\ UNCHANGED <<pc, outcome, text, ret>>

\* agent.process(messages)
Process(seed, now) ==
    /\ pc = "compose"
    /\ outcome' = process(messages, seed, now)
    /\ messages' = InputAfter(messages)
    /\ pc' = "done"
    /\ UNCHANGED <<text, ret>>

Next ==
    \/ \E role \in Roles, content \in Contents : Post(role, content)
    \/ \E d \in Draws : Process(d.seed, d.now)

Spec == Init /\ [][Next]_vars

----------------------------------------------------------------------------
(* The functions of the pipeline applied one at a time to a text. *)

\* the pieces a text is made of
Chunks ==
    { "My name is Ada Lovelace and we run Clawbot Labs",
      "Build the UI",
      "compare market trends then plan the launch",
      "alpha bravo alpha charlie delta echo retention",
      "golf hotel india juliet kilo robot mike",
      "What is this, 42?",
      "how do we meet the timeline",
      "growth roadmap with customer safety",
      "debug robot interface before the deadline" }

RECURSIVE TextsOf(_)
\* the texts of at most n chunks, separated by a space
TextsOf(n) ==
    IF n = 0 THEN {""}
    ELSE LET shorter == TextsOf(n - 1)
         IN  shorter \cup {IF t = "" THEN c ELSE t \o " " \o c :
                              t \in shorter, c \in Chunks}

Texts == TextsOf(MaxChunks)

FnInit ==
    /\ text \in Texts
    /\ ret = NoCall
    /\ messages = <<>>
    /\ pc = "compose"
    /\ outcome = NoOutcome

CallDetectIntent ==
    /\ ret = NoCall
    /\ ret' = [fn |-> "detectIntent", value |-> detectIntent(text)]
    /\ UNCHANGED <<messages, pc, outcome, text>>

CallExtractKeywords ==
    /\ ret = NoCall
    /\ ret' = [fn |-> "extractKeywords", value |-> extractKeywords(text)]
    /\ UNCHANGED <<messages, pc, outcome, text>>

CallDetectFacts(seed) ==
    /\ ret = NoCall
    /\ ret' = [fn |-> "detectFacts", value |-> detectFacts(text, seed, 0)]
    /\ UNCHANGED <<messages, pc, outcome, text>>

CallBuildTaskGraph(intent, seed) ==
    /\ ret = NoCall
    /\ ret' = [fn |-> "buildTaskGraph", intent |-> intent,
               value |-> buildTaskGraph(intent, text, seed)]
    /\ UNCHANGED <<messages, pc, outcome, text>>

\* the keyword lists runToolset is given with a text: its own keywords, none,
\* or the keywords of one chunk
KeywordLists(t) == {extractKeywords(t), <<>>, extractKeywords("Build the UI")}

CallRunToolset(intent, keywords, seed) ==
    /\ ret = NoCall
    /\ ret' = [fn |-> "runToolset", intent |-> intent, keywords |-> keywords,
               value |-> runToolset([intent |-> intent, keywords |-> keywords,
                                     message |-> text], seed)]
    /\ UNCHANGED <<messages, pc, outcome, text>>

FnNext ==
    \/ CallDetectIntent
    \/ CallExtractKeywords
    \/ \E seed \in Seeds : CallDetectFacts(seed)
    \/ \E intent \in Intents, seed \in Seeds : CallBuildTaskGraph(intent, seed)
    \/ \E intent \in Intents, keywords \in KeywordLists(text), seed \in Seeds :
          CallRunToolset(intent, keywords, seed)

FnSpec == FnInit /\ [][FnNext]_vars

----------------------------------------------------------------------------
(* composeAssistantMessage applied to inputs made from a text. *)

\* the inputs made from a text: any intent, the text's keywords, its tasks or
\* none, its tools or none, and its facts, an empty list or no memory at all
ComposeInputs(t) ==
    LET bare ==
            UNION {{[intent |-> i, keywords |-> extractKeywords(t),
                     tasks |-> ts, tools |-> tl] :
                        ts \in {<<>>, buildTaskGraph(i, t, seed)},
                        tl \in {<<>>, runToolset([intent |-> i,
                                                  keywords |-> extractKeywords(t),
                                                  message |-> t], seed)}} :
                   i \in Intents, seed \in Seeds}
    IN  bare \cup
        {[intent |-> b.intent, keywords |-> b.keywords, tasks |-> b.tasks,
          tools |-> b.tools, memory |-> m] :
            b \in bare, m \in {<<>>, detectFacts(t, 0, 0)}}

ComposeInit ==
    /\ text \in TextsOf(1)
    /\ ret = NoCall
    /\ messages = <<>>
    /\ pc = "compose"
    /\ outcome = NoOutcome

CallComposeAssistantMessage(input) ==
    /\ ret = NoCall
    /\ ret' = [fn |-> "composeAssistantMessage", input |-> input,
               value |-> composeAssistantMessage(input)]
    /\ UNCHANGED <<messages, pc, outcome, text>>

ComposeNext == \E input \in ComposeInputs(text) : CallComposeAssistantMessage(input)

ComposeSpec == ComposeInit /\ [][ComposeNext]_vars

----------------------------------------------------------------------------
(* The claims. *)

Done == pc = "done"

Produced == Done /\ outcome.status = "turn"

HasUser(msgs) == \E n \in 1..Len(msgs) : msgs[n].role = "user"

\* the index of the last message with role user
LastUserIndex(msgs) ==
    CHOOSE n \in 1..Len(msgs) :
        /\ msgs[n].role = "user"
        /\ \A m \in (n + 1)..Len(msgs) : msgs[m].role # "user"

LastUserContent(msgs) == msgs[LastUserIndex(msgs)].content

Applied(fn) == ret.fn = fn

\* C1: a history with no user message (the empty one included) makes process
\* fail with the missing-user-message error and produce no turn; a history
\* with a user message never fails.
C1_MissingUserMessage ==
    Done =>
        /\ ~HasUser(messages) =>
              outcome = [status |-> "error", error |-> "User message required"]
        /\ HasUser(messages) =>
              outcome.status = "turn" /\ "error" \notin DOMAIN outcome

C1_Witness ==
    /\ Done
    /\ Len(messages) = 2
    /\ messages[1].role = "system"
    /\ messages[2].role = "assistant"
    /\ outcome.status = "error"

AdaMessage == "My name is Ada Lovelace and we run Clawbot Labs"

\* C2: detectFacts on the Ada Lovelace message yields exactly two shards:
\* user-profile, 0.7, "User is Ada Lovelace", then org-focus, 0.65,
\* "Company context: Clawbot Labs".
C2_AdaLovelaceFacts ==
    (Applied("detectFacts") /\ text = AdaMessage) =>
        /\ Len(ret.value) = 2
        /\ ret.value[1].label = "user-profile"
        /\ ret.value[1].confidence = 70
        /\ ret.value[1].summary = "User is Ada Lovelace"
        /\ ret.value[2].label = "org-focus"
        /\ ret.value[2].confidence = 65
        /\ ret.value[2].summary = "Company context: Clawbot Labs"

\* the rule of INTENT_MATCHERS for an intent
RuleOf(intent) ==
    CHOOSE m \in {INTENT_MATCHERS[k] : k \in 1..Len(INTENT_MATCHERS)} :
        m.intent = intent

\* one of the patterns of the intent's rule occurs in the lowercased text
RuleOccurs(intent, t) ==
    \E p \in 1..Len(RuleOf(intent).patterns) :
        \E lit \in RuleOf(intent).patterns[p] : includes(toLowerCase(t), lit)

RuleOrder == << "build", "research", "strategy", "analysis" >>

\* C3: detectIntent returns one of the five intents, and the intent of the
\* first rule in the order build, research, strategy, analysis that occurs in
\* the lowercased text; "build" with "ui" gives build, and a research and a
\* strategy pattern without a build pattern give research.
C3_FirstRuleWins ==
    Applied("detectIntent") =>
        /\ ret.value \in {"research", "strategy", "build", "analysis", "assist"}
        /\ \A k \in 1..Len(RuleOrder) :
              (/\ RuleOccurs(RuleOrder[k], text)
               /\ \A j \in 1..(k - 1) : ~RuleOccurs(RuleOrder[j], text))
              => ret.value = RuleOrder[k]
        /\ (includes(toLowerCase(text), "build") /\ includes(toLowerCase(text), "ui"))
              => ret.value = "build"
        /\ (/\ RuleOccurs("research", text)
            /\ RuleOccurs("strategy", text)
            /\ ~RuleOccurs("build", text))
              => ret.value = "research"

C3_Witness ==
    /\ Applied("detectIntent")
    /\ RuleOccurs("research", text)
    /\ RuleOccurs("strategy", text)
    /\ ~RuleOccurs("build", text)
    /\ ret.value = "research"

\* C4: extractKeywords returns at most 12 entries, none twice, none a stop
\* word, none of length 3 or less; the empty text gives the empty list.
C4_KeywordsBounded ==
    Applied("extractKeywords") =>
        /\ Len(ret.value) <= 12
        /\ \A a, b \in 1..Len(ret.value) : ret.value[a] = ret.value[b] => a = b
        /\ \A a \in 1..Len(ret.value) :
              ret.value[a] \notin STOP_WORDS /\ Len(ret.value[a]) > 3
        /\ text = "" => ret.value = <<>>

\* a text with a stop word, a short token and more than 12 qualifying tokens,
\* cut to 12 keywords
C4_Witness ==
    /\ Applied("extractKeywords")
    /\ Len(ret.value) = 12
    /\ Len(filter(Tokens(text))) > 12
    /\ \E a \in 1..Len(Tokens(text)) : Tokens(text)[a] \in STOP_WORDS
    /\ \E a \in 1..Len(Tokens(text)) : Len(Tokens(text)[a]) <= 3

\* C5: extractKeywords returns the first 12 distinct qualifying tokens in
\* order of first occurrence (deduplicate, then truncate).
C5_DedupeThenTruncate ==
    Applied("extractKeywords") =>
        ret.value = slice(Dedupe(filter(Tokens(text)), {}), 12)

Titles(tasks) == [n \in 1..Len(tasks) |-> tasks[n].title]

IntentTitle(intent) ==
    CASE intent = "build" -> << "Draft implementation plan" >>
      [] intent = "strategy" -> << "Sequence milestones" >>
      [] intent = "research" -> << "Aggregate competitive signals" >>
      [] intent = "analysis" -> << "Formulate diagnostics" >>
      [] OTHER -> <<>>

MentionsTimeline(t) ==
    includes(toLowerCase(t), "timeline") \/ includes(toLowerCase(t), "deadline")

\* C6: buildTaskGraph returns the two fixed tasks, then the one task of the
\* intent (none for assist), then "Timeline handshake" exactly when the
\* lowercased text contains "timeline" or "deadline"; every task is pending.
C6_TaskGraphShape ==
    Applied("buildTaskGraph") =>
        /\ Titles(ret.value) =
              << "Clarify outcome", "Assess constraints" >>
              \o IntentTitle(ret.intent)
              \o (IF MentionsTimeline(text) THEN << "Timeline handshake" >> ELSE <<>>)
        /\ \A n \in 1..Len(ret.value) : ret.value[n].status = "pending"
        /\ ret.intent = "build" =>
              Len(ret.value) >= 3 /\ ret.value[3].title = "Draft implementation plan"

C6_Witness ==
    /\ Applied("buildTaskGraph")
    /\ ret.intent = "build"
    /\ includes(toLowerCase(text), "deadline")
    /\ Len(ret.value) = 4
    /\ ret.value[3].title = "Draft implementation plan"
    /\ ret.value[4].title = "Timeline handshake"

\* the facts of the n-th message of a history
FactsOf(msgs, n) == detectFacts(msgs[n].content, 0, 0)

UserIndexes(msgs) == {n \in 1..Len(msgs) : msgs[n].role = "user"}

\* where a fact stands in the history: message n, fact j of that message
Rank(n, j) == 10 * n + j

\* the ranks at which a summary is detected in the user messages
RanksOf(msgs, summary) ==
    UNION {{Rank(n, j) : j \in {i \in 1..Len(FactsOf(msgs, n)) :
                                   FactsOf(msgs, n)[i].summary = summary}} :
           n \in UserIndexes(msgs)}

UserSummaries(msgs) ==
    UNION {{FactsOf(msgs, n)[j].summary : j \in 1..Len(FactsOf(msgs, n))} :
           n \in UserIndexes(msgs)}

\* C7: the memory of the turn lists the facts detected in the user messages
\* of the whole history, in history order, one per distinct summary (its
\* first occurrence); with no fact the memory field is absent, and it is
\* never an empty list.
C7_MemoryAggregates ==
    Produced =>
        LET turn == outcome.turn
            wanted == UserSummaries(messages)
        IN  /\ ("memory" \in DOMAIN turn) <=> (wanted # {})
            /\ "memory" \in DOMAIN turn =>
                  LET memory == turn.memory
                  IN  /\ Len(memory) > 0
                      /\ {memory[a].summary : a \in 1..Len(memory)} = wanted
                      /\ \A a, b \in 1..Len(memory) :
                            a < b => Min(RanksOf(messages, memory[a].summary))
                                     < Min(RanksOf(messages, memory[b].summary))
                      /\ \A a \in 1..Len(memory) :
                            \E n \in UserIndexes(messages) :
                                \E j \in 1..Len(FactsOf(messages, n)) :
                                    /\ FactsOf(messages, n)[j].summary = memory[a].summary
                                    /\ FactsOf(messages, n)[j].label = memory[a].label
                                    /\ FactsOf(messages, n)[j].confidence
                                       = memory[a].confidence

\* two user messages that share the cadence fact; the first has one more
C7_Witness ==
    /\ Produced
    /\ Len(messages) = 2
    /\ UserIndexes(messages) = {1, 2}
    /\ Len(FactsOf(messages, 1)) = 2
    /\ Len(FactsOf(messages, 2)) = 1
    /\ FactsOf(messages, 2)[1].summary = FactsOf(messages, 1)[2].summary
    /\ "memory" \in DOMAIN outcome.turn
    /\ Len(outcome.turn.memory) = 2

\* records without their generated id
StripIds(seq) ==
    [n \in 1..Len(seq) |-> [f \in (DOMAIN seq[n]) \ {"id"} |-> seq[n][f]]]

\* the turn of the history cut down to its last user message
SoloTurn(msgs) ==
    process(<< [role |-> "user", content |-> LastUserContent(msgs)] >>, 0, "t0").turn

\* C8: intent, keywords (as shown in the reasoning and by Signal Scan), tasks
\* and tools of the turn depend on the content of the last user message only:
\* they are those of the history cut down to that message.
C8_LastUserMessageOnly ==
    Produced =>
        LET solo == SoloTurn(messages)
        IN  /\ outcome.turn.intent = solo.intent
            /\ outcome.turn.reasoning = solo.reasoning
            /\ StripIds(outcome.turn.tasks) = StripIds(solo.tasks)
            /\ StripIds(outcome.turn.tools) = StripIds(solo.tools)

\* an assistant message of another intent follows the last user message
C8_Witness ==
    /\ Produced
    /\ Len(messages) = 2
    /\ messages[1].role = "user"
    /\ messages[2].role = "assistant"
    /\ messages[1].content # messages[2].content
    /\ detectIntent(messages[2].content) # outcome.turn.intent
    /\ extractKeywords(messages[2].content) # extractKeywords(messages[1].content)

\* C9: runToolset returns Signal Scan (analysis) first, then Trend Pulse iff
\* the intent is research or analysis, Strategy Weave iff it is strategy or
\* assist, Build Accelerator iff it is build, and nothing else.
C9_ToolsetShape ==
    Applied("runToolset") =>
        /\ Names(ret.value) =
              << "Signal Scan" >>
              \o (IF ret.intent \in {"research", "analysis"}
                  THEN << "Trend Pulse" >> ELSE <<>>)
              \o (IF ret.intent \in {"strategy", "assist"}
                  THEN << "Strategy Weave" >> ELSE <<>>)
              \o (IF ret.intent = "build" THEN << "Build Accelerator" >> ELSE <<>>)
        /\ ret.value[1].type = "analysis"

C9_Witness ==
    /\ Applied("runToolset")
    /\ ret.intent = "assist"
    /\ Len(ret.keywords) > 0
    /\ Names(ret.value) = << "Signal Scan", "Strategy Weave" >>

Placeholder == "- intent discovery pending (message was too short)"

\* the lines of a Signal Scan result between "Key tokens:" and the blank line
Listed(result) ==
    LET lines == SplitLinesFrom(result, 1)
    IN  SubSeq(lines, 2, Len(lines) - 2)

\* C10: when no keyword is extracted from the latest user message, Signal
\* Scan lists the placeholder line alone; when keywords are extracted it
\* lists the first 4 at most, in keyword order, and no placeholder.
C10_SignalScanPlaceholder ==
    Produced =>
        LET keywords == extractKeywords(LastUserContent(messages))
            scan == outcome.turn.tools[1]
            listed == Listed(scan.result)
        IN  /\ scan.name = "Signal Scan"
            /\ Len(keywords) = 0 => listed = << Placeholder >>
            /\ Len(keywords) > 0 =>
                  /\ \A n \in 1..Len(listed) : listed[n] # Placeholder
                  /\ Len(listed) <= 4
                  /\ Len(listed) = (IF Len(keywords) < 4 THEN Len(keywords) ELSE 4)
                  /\ \A n \in 1..Len(listed) : listed[n] = "- " \o keywords[n]

C10_Witness ==
    /\ Produced
    /\ Len(LastUserContent(messages)) > 0
    /\ extractKeywords(LastUserContent(messages)) = <<>>
    /\ Listed(outcome.turn.tools[1].result) = << Placeholder >>

ReId(seq) ==
    [n \in 1..Len(seq) |->
        [f \in DOMAIN seq[n] |-> IF f = "id" THEN "other" ELSE seq[n][f]]]

\* an input of composeAssistantMessage with every generated id replaced
WithOtherIds(input) ==
    [f \in DOMAIN input |->
        IF f \in {"tasks", "tools", "memory"} THEN ReId(input[f]) ELSE input[f]]

\* C12: the markdown of composeAssistantMessage depends on intent, keywords,
\* tasks, tools and memory only, not on a generated id: the same input with
\* other ids gives the same markdown.
C12_MarkdownIgnoresIds ==
    Applied("composeAssistantMessage") =>
        ret.value = composeAssistantMessage(WithOtherIds(ret.input))

C12_Witness ==
    /\ Applied("composeAssistantMessage")
    /\ Len(ret.input.tasks) > 0
    /\ Len(ret.input.tools) > 0
    /\ "memory" \in DOMAIN ret.input
    /\ Len(ret.input.memory) > 0
    /\ WithOtherIds(ret.input) # ret.input

\* no rule pattern occurs in the lowercased text
NoRuleOccurs(t) == \A k \in 1..Len(RuleOrder) : ~RuleOccurs(RuleOrder[k], t)

\* C13: when no rule pattern occurs in the lowercased text, detectIntent
\* returns strategy if "launch" or "roadmap" occurs, else assist if "how"
\* occurs, else analysis; assist is returned exactly for the texts with no
\* rule pattern and with "how".
C13_FallbackOrder ==
    Applied("detectIntent") =>
        LET normalized == toLowerCase(text)
        IN  /\ NoRuleOccurs(text) =>
                  ret.value =
                      (IF includes(normalized, "launch") \/ includes(normalized, "roadmap")
                       THEN "strategy"
                       ELSE IF includes(normalized, "how") THEN "assist"
                       ELSE "analysis")
            /\ ret.value = "assist" <=>
                  (NoRuleOccurs(text) /\ includes(normalized, "how"))

C13_Witness ==
    /\ Applied("detectIntent")
    /\ NoRuleOccurs(text)
    /\ includes(toLowerCase(text), "how")
    /\ ret.value = "assist"

\* a keyword of the list contains one of the literals
AnyContains(keywords, literals) ==
    \E n \in 1..Len(keywords) : \E lit \in literals : includes(keywords[n], lit)

\* the topic bucket of a keyword list, rule by rule
BucketOf(keywords) ==
    IF AnyContains(keywords, {"security", "guardrail", "safety"}) THEN "security"
    ELSE IF AnyContains(keywords, {"activation", "north star", "retention"}) THEN "product"
    ELSE IF AnyContains(keywords, {"market", "competitor", "landscape"}) THEN "market"
    ELSE IF AnyContains(keywords, {"ux", "interface", "onboarding"}) THEN "ux"
    ELSE IF AnyContains(keywords, {"robot", "mechanical"}) THEN "robotics"
    ELSE "ai"

GenericInsight ==
    "Teams that invest in evaluation harnesses keep agent drift under control."

\* C14: Trend Pulse picks the bucket of the first matching rule in the order
\* security, product, market, ux, robotics, else ai; its insight is the
\* bucket's curated insight or the generic one; its signals are the first two
\* entries of the bucket's own trend list, or of the default list when the
\* bucket has none.
C14_TrendPulseBucket ==
    (Applied("runToolset") /\ ret.intent \in {"research", "analysis"}) =>
        LET bucket == BucketOf(ret.keywords)
            pool == IF bucket \in {"ai", "robotics", "product"}
                    THEN curatedTrends[bucket] ELSE curatedTrends["default"]
            insight == IF bucket \in {"market", "security", "ux"}
                       THEN researchSnippets[bucket] ELSE GenericInsight
        IN  /\ Len(ret.value) = 2
            /\ ret.value[2].name = "Trend Pulse"
            /\ SplitLinesFrom(ret.value[2].result, 1) =
                  << "Signals:", "1. " \o pool[1], "2. " \o pool[2], "",
                     "Insight: " \o insight >>

C14_Witness ==
    /\ Applied("runToolset")
    /\ ret.intent = "research"
    /\ AnyContains(ret.keywords, {"ux", "interface", "onboarding"})
    /\ AnyContains(ret.keywords, {"robot", "mechanical"})
    /\ BucketOf(ret.keywords) = "ux"
    /\ SplitLinesFrom(ret.value[2].result, 1)[2] = "1. " \o curatedTrends["default"][1]

\* the indexes of the keywords that contain "ui", "interface" or "frontend"
UiHits(keywords) ==
    {n \in 1..Len(keywords) :
        \E lit \in {"ui", "interface", "frontend"} : includes(keywords[n], lit)}

\* C16: the third checklist line of Build Accelerator names the first keyword,
\* in list order, that contains "ui", "interface" or "frontend" ("build"
\* counts), and is the generic evaluation-harness line exactly when no keyword
\* contains any of the three; the first two checklist lines are fixed.
C16_BuildAcceleratorThirdLine ==
    (Applied("runToolset") /\ ret.intent = "build") =>
        LET hits == UiHits(ret.keywords)
            lines == SplitLinesFrom(ret.value[2].result, 1)
            generic == "3. Focus on deterministic evaluation harness and typed tool schema."
        IN  /\ ret.value[2].name = "Build Accelerator"
            /\ Len(lines) = 4
            /\ lines[1] = "Checklist:"
            /\ lines[2] = "1. Draft agent skill graph (intent -> tools -> outcomes)."
            /\ lines[3] = "2. Model telemetry events before wiring new actions."
            /\ lines[4] = generic <=> hits = {}
            /\ hits # {} =>
                  lines[4] = "3. Design UI scaffolds highlighting "
                                \o ret.keywords[CHOOSE n \in hits : \A m \in hits : n <= m]
                                \o " data hotspots."

C16_Witness ==
    /\ Applied("runToolset")
    /\ ret.intent = "build"
    /\ Len(ret.keywords) > 1
    /\ ret.keywords[1] = "build"
    /\ \E n \in UiHits(ret.keywords) : ret.keywords[n] = "interface"
    /\ SplitLinesFrom(ret.value[2].result, 1)[4] =
          "3. Design UI scaffolds highlighting build data hotspots."

\* C17: every turn process produces carries two tools, Signal Scan then one of
\* Trend Pulse, Strategy Weave and Build Accelerator; the placeholder for no
\* tools is not in the message and the second reasoning line does not read
\* "baseline response only".
C17_TwoToolsAlways ==
    Produced =>
        /\ Len(outcome.turn.tools) = 2
        /\ outcome.turn.tools[1].name = "Signal Scan"
        /\ outcome.turn.tools[2].name \in
              {"Trend Pulse", "Strategy Weave", "Build Accelerator"}
        /\ ~includes(outcome.turn.message.content,
                     "_No specialised tools invoked; relying on reasoning._")
        /\ ~includes(outcome.turn.reasoning[2], "baseline response only")
        /\ outcome.turn.reasoning[2] =
              "Toolkit assembled: Signal Scan, " \o outcome.turn.tools[2].name \o "."

C17_Witness ==
    /\ Produced
    /\ outcome.turn.intent = "assist"
    /\ Names(outcome.turn.tools) = << "Signal Scan", "Strategy Weave" >>

\* C18: the "launch"/"roadmap" substring check never decides the result of
\* detectIntent: a text with "launch" or "roadmap" has a pattern of the build,
\* research or strategy rule, and a text with no rule pattern gets assist for
\* "how" and analysis otherwise.
C18_LaunchFallbackNeverDecides ==
    Applied("detectIntent") =>
        LET normalized == toLowerCase(text)
        IN  /\ (includes(normalized, "launch") \/ includes(normalized, "roadmap")) =>
                  \E k \in 1..3 : MatcherHits(INTENT_MATCHERS[k], normalized)
            /\ (\A k \in 1..Len(INTENT_MATCHERS) :
                    ~MatcherHits(INTENT_MATCHERS[k], normalized)) =>
                  ret.value = (IF includes(normalized, "how") THEN "assist"
                               ELSE "analysis")

C18_Witness ==
    /\ Applied("detectIntent")
    /\ includes(toLowerCase(text), "roadmap")
    /\ ~includes(toLowerCase(text), "launch")
    /\ ~MatcherHits(INTENT_MATCHERS[1], toLowerCase(text))
    /\ ~MatcherHits(INTENT_MATCHERS[2], toLowerCase(text))
    /\ \A lit \in {"plan", "strategy", "launch", "roll", "scale", "operationalize",
                   "align", "stakeholder"} : ~includes(toLowerCase(text), lit)
    /\ ret.value = "strategy"

\* a line of the markdown is exactly h
HasLine(markdown, h) ==
    LET lines == SplitLinesFrom(markdown, 1)
    IN  \E n \in 1..Len(lines) : lines[n] = h

====
